---------------------------- MODULE Spec2Model ----------------------------
(***************************************************************************)
(* Model of moko256_systemd_stdio_logger (src/src/lib.rs): the filter      *)
(* resolver (most_verbose_level, AppLogger::enabled), the emission         *)
(* (AppLogger::log, level_to_severity_rfc5424, flush) and the one-time     *)
(* global registration (init, APP_LOGGER).                                 *)
(***************************************************************************)
EXTENDS Integers, Sequences, FiniteSets, TLC

VARIABLES
    max_level,      \* log::set_max_level's process-wide threshold
    app_logger,     \* static APP_LOGGER: OnceLock<AppLogger>
    logger_state,   \* the log facade's installed logger (set_logger)
    pc,             \* per thread: position inside init
    arg,            \* per thread: module_max_levels of the init call in flight
    history,        \* the init calls that returned, in order of return
    stdout,         \* the texts written to standard output, in order
    last_op,        \* the operation the last step performed
    logger,         \* an AppLogger built directly, as the unit tests do
    call            \* the last call made on `logger` and its result

vars == <<max_level, app_logger, logger_state, pc, arg, history, stdout,
          last_op, logger, call>>

---------------------------------------------------------------------------
\* Bounds of the model.

\* longest rule list enumerated for the resolver
MaxRules == 3
\* number of threads that may call init
NThreads == 3
\* number of init calls made in one run
MaxCalls == 4
\* number of texts written to standard output in one run
MaxOutput == 3

---------------------------------------------------------------------------
\* log::LevelFilter and log::Level, by discriminant (Off < Error < ... < Trace).

Off == 0
Error == 1
Warn == 2
Info == 3
Debug == 4
Trace == 5

Level == {Error, Warn, Info, Debug, Trace}

LevelFilter == {Off} \cup Level

\* Level::to_level_filter: the filter level of the same discriminant
to_level_filter(level) ==
    CASE level = Error -> Error
      [] level = Warn -> Warn
      [] level = Info -> Info
      [] level = Debug -> Debug
      [] level = Trace -> Trace

\* Option<LevelFilter>
None == <<>>

Some(x) == <<x>>

---------------------------------------------------------------------------
\* pub enum LoggerModuleFilterKey

Module(name, level) == [kind |-> "Module", name |-> name, level |-> level]

Default(level) == [kind |-> "Default", level |-> level]

\* struct AppLogger { module_max_levels }
AppLogger(module_max_levels) == [module_max_levels |-> module_max_levels]

\* log::Metadata and log::Record, as far as the backend reads them
Metadata(target, level) == [target |-> target, level |-> level]

Record(target, level, args) ==
    [metadata |-> Metadata(target, level), args |-> args]

---------------------------------------------------------------------------
\* Texts are sequences of characters.

test == <<"t", "e", "s", "t">>

test1 == <<"t", "e", "s", "t", "1">>

test12 == <<"t", "e", "s", "t", "1", "2">>

test2 == <<"t", "e", "s", "t", "2">>

test1_child_module ==
    <<"t", "e", "s", "t", "1", ":", ":", "c", "h", "i", "l", "d",
      ":", ":", "m", "o", "d", "u", "l", "e">>

\* a prefix match that also wants a "::" boundary after the prefix
starts_with_boundary(s, name) ==
    /\ Len(name) <= Len(s)
    /\ \A i \in 1..Len(name) : s[i] = name[i]
    /\ (Len(s) > Len(name) => s[Len(name) + 1] = ":")

\* str::starts_with
starts_with(s, name) ==
    /\ Len(name) <= Len(s)
    /\ \A i \in 1..Len(name) : s[i] = name[i]

---------------------------------------------------------------------------
\* fn most_verbose_level(module_max_levels) -> LevelFilter

RECURSIVE most_verbose_level_loop(_, _, _)
most_verbose_level_loop(module_max_levels, i, most_verbose) ==
    IF i > Len(module_max_levels)
    THEN most_verbose
    ELSE most_verbose_level_loop(
             module_max_levels, i + 1,
             IF module_max_levels[i].level > most_verbose
             THEN module_max_levels[i].level
             ELSE most_verbose)

\* the Default arm of line 26 left out
RECURSIVE most_verbose_level_modules_only(_, _, _)
most_verbose_level_modules_only(module_max_levels, i, most_verbose) ==
    IF i > Len(module_max_levels)
    THEN most_verbose
    ELSE most_verbose_level_modules_only(
             module_max_levels, i + 1,
             IF /\ module_max_levels[i].kind = "Module"
                /\ module_max_levels[i].level > most_verbose
             THEN module_max_levels[i].level
             ELSE most_verbose)

most_verbose_level_skipping_default(module_max_levels) ==
    most_verbose_level_modules_only(module_max_levels, 1, Off)

\* the comparison of line 27 reversed
RECURSIVE most_verbose_level_reversed(_, _, _)
most_verbose_level_reversed(module_max_levels, i, most_verbose) ==
    IF i > Len(module_max_levels)
    THEN most_verbose
    ELSE most_verbose_level_reversed(
             module_max_levels, i + 1,
             IF module_max_levels[i].level < most_verbose
             THEN module_max_levels[i].level
             ELSE most_verbose)

most_verbose_level_least(module_max_levels) ==
    most_verbose_level_reversed(module_max_levels, 1, Off)

most_verbose_level(module_max_levels) ==
    most_verbose_level_loop(module_max_levels, 1, Off)

---------------------------------------------------------------------------
\* impl Log for AppLogger: fn enabled(&self, metadata) -> bool

RECURSIVE enabled_loop(_, _, _, _)
enabled_loop(self, i, default_level, metadata) ==
    IF i > Len(self.module_max_levels)
    THEN IF default_level # None
         THEN to_level_filter(metadata.level) <= default_level[1]
         ELSE FALSE
    ELSE LET key == self.module_max_levels[i]
         IN  IF key.kind = "Module"
             THEN IF starts_with(metadata.target, key.name)
                  THEN to_level_filter(metadata.level) <= key.level
                  ELSE enabled_loop(self, i + 1, default_level, metadata)
             ELSE enabled_loop(
                      self, i + 1,
                      IF default_level = None
                      THEN Some(key.level)
                      ELSE default_level,
                      metadata)

\* a scan that a Default rule ends as a matching Module rule does
RECURSIVE enabled_loop_first_rule(_, _, _)
enabled_loop_first_rule(self, i, metadata) ==
    IF i > Len(self.module_max_levels)
    THEN FALSE
    ELSE LET key == self.module_max_levels[i]
         IN  IF key.kind = "Module"
             THEN IF starts_with(metadata.target, key.name)
                  THEN to_level_filter(metadata.level) <= key.level
                  ELSE enabled_loop_first_rule(self, i + 1, metadata)
             ELSE to_level_filter(metadata.level) <= key.level

enabled_default_short_circuits(self, metadata) ==
    enabled_loop_first_rule(self, 1, metadata)

\* a scan without the `default_level == None` test of line 63
RECURSIVE enabled_loop_last_default(_, _, _, _)
enabled_loop_last_default(self, i, default_level, metadata) ==
    IF i > Len(self.module_max_levels)
    THEN IF default_level # None
         THEN to_level_filter(metadata.level) <= default_level[1]
         ELSE FALSE
    ELSE LET key == self.module_max_levels[i]
         IN  IF key.kind = "Module"
             THEN IF starts_with(metadata.target, key.name)
                  THEN to_level_filter(metadata.level) <= key.level
                  ELSE enabled_loop_last_default(
                           self, i + 1, default_level, metadata)
             ELSE enabled_loop_last_default(
                      self, i + 1, Some(key.level), metadata)

enabled_last_default_wins(self, metadata) ==
    enabled_loop_last_default(self, 1, None, metadata)

enabled(self, metadata) == enabled_loop(self, 1, None, metadata)

---------------------------------------------------------------------------
\* impl AppLogger: fn level_to_severity_rfc5424(level) -> usize

\* the codes taken one apart below Info, not from the table
level_to_severity_shifted(level) ==
    CASE level = Trace -> 7
      [] level = Debug -> 7
      [] level = Info -> 6
      [] level = Warn -> 5
      [] level = Error -> 4

level_to_severity_rfc5424(level) ==
    CASE level = Trace -> 7
      [] level = Debug -> 7
      [] level = Info -> 6
      [] level = Warn -> 4
      [] level = Error -> 3

\* Display for usize: the decimal digits
Digit(d) ==
    CASE d = 0 -> "0" [] d = 1 -> "1" [] d = 2 -> "2" [] d = 3 -> "3"
      [] d = 4 -> "4" [] d = 5 -> "5" [] d = 6 -> "6" [] d = 7 -> "7"
      [] d = 8 -> "8" [] d = 9 -> "9"

RECURSIVE usize_to_string(_)
usize_to_string(n) ==
    IF n < 10
    THEN <<Digit(n)>>
    ELSE usize_to_string(n \div 10) \o <<Digit(n % 10)>>

\* println!("<{}>{}: {}", severity, target, args): the text written
println(severity, target, args) ==
    <<"<">> \o usize_to_string(severity) \o <<">">> \o target
        \o <<":", " ">> \o args \o <<"\n">>

\* fn log(&self, record): the texts it writes to standard output
log(self, record) ==
    IF enabled(self, record.metadata)
    THEN << println(level_to_severity_rfc5424(record.metadata.level),
                    record.metadata.target, record.args) >>
    ELSE << >>

\* fn flush(&self) {}: the texts it writes to standard output
flush(self) == << >>

---------------------------------------------------------------------------
\* The inputs enumerated.

Threads == 1..NThreads

\* rule lists passed to init (those of the unit tests with_filters,
\* filter_first_find and no_filters)
InitRuleSets ==
    { <<Module(test1, Info), Default(Warn)>>,
      <<Module(test1, Error), Module(test1, Trace),
        Default(Error), Default(Trace)>>,
      << >> }

\* rule lists of the backends that log (with_filters, filter_first_find,
\* no_filters, and the shape of examples/example.rs)
LogRuleSets ==
    InitRuleSets \cup { <<Module(test1, Error), Default(Trace)>> }

Messages == { <<"o", "k">>, <<"E", "!">> }

Records ==
    { Record(target, level, args) :
        target \in {test1, test2}, level \in Level, args \in Messages }

\* the resolver's inputs
Prefixes == {test1, test12}

RuleLevels == {Off, Error, Info, Trace}

Rules ==
    { Module(name, level) : name \in Prefixes, level \in RuleLevels }
        \cup { Default(level) : level \in RuleLevels }

RuleSets == UNION { [1..n -> Rules] : n \in 0..MaxRules }

Targets == {test, test1, test12, test2, test1_child_module}

---------------------------------------------------------------------------
\* The process: threads calling init.

InitProcess ==
    /\ max_level = Off
    /\ app_logger = None
    /\ logger_state = "UNINITIALIZED"
    /\ pc = [t \in Threads |-> "idle"]
    /\ arg = [t \in Threads |-> << >>]
    /\ history = << >>
    /\ stdout = << >>
    /\ last_op = [op |-> "none"]

Init ==
    /\ InitProcess
    /\ logger = AppLogger(<< >>)
    /\ call = [op |-> "none"]

InFlight == { t \in Threads : pc[t] # "idle" }

\* init, line 14: the call is entered with its rule list
InitCall(t, module_max_levels) ==
    /\ pc[t] = "idle"
    /\ Len(history) + Cardinality(InFlight) < MaxCalls
    /\ pc' = [pc EXCEPT ![t] = "set_max_level"]
    /\ arg' = [arg EXCEPT ![t] = module_max_levels]
    /\ UNCHANGED <<max_level, app_logger, logger_state, history, stdout,
                   last_op, logger, call>>

\* init, line 16: set_max_level(most_verbose_level(&module_max_levels))
SetMaxLevel(t) ==
    /\ pc[t] = "set_max_level"
    /\ max_level' = most_verbose_level(arg[t])
    /\ pc' = [pc EXCEPT ![t] = "get_or_init"]
    /\ UNCHANGED <<app_logger, logger_state, arg, history, stdout,
                   last_op, logger, call>>

\* a cell that is written on every call
GetOrInit_replace(t) ==
    /\ pc[t] = "get_or_init"
    /\ app_logger' = Some(AppLogger(arg[t]))
    /\ pc' = [pc EXCEPT ![t] = "set_logger"]
    /\ UNCHANGED <<max_level, logger_state, arg, history, stdout,
                   last_op, logger, call>>

\* init, line 17: APP_LOGGER.get_or_init(|| AppLogger { module_max_levels })
GetOrInit(t) ==
    /\ pc[t] = "get_or_init"
    /\ app_logger' = IF app_logger = None
                     THEN Some(AppLogger(arg[t]))
                     ELSE app_logger
    /\ pc' = [pc EXCEPT ![t] = "set_logger"]
    /\ UNCHANGED <<max_level, logger_state, arg, history, stdout,
                   last_op, logger, call>>

\* a registration that does not test whether a logger is installed
SetLogger_always_ok(t) ==
    /\ pc[t] = "set_logger"
    /\ logger_state' = "INITIALIZED"
    /\ history' = Append(history,
                         [module_max_levels |-> arg[t], result |-> "Ok"])
    /\ pc' = [pc EXCEPT ![t] = "idle"]
    /\ arg' = [arg EXCEPT ![t] = << >>]
    /\ UNCHANGED <<max_level, app_logger, stdout, last_op, logger, call>>

\* init, line 17: set_logger(&APP_LOGGER), whose result init returns
SetLogger(t) ==
    /\ pc[t] = "set_logger"
    /\ logger_state' = "INITIALIZED"
    /\ history' = Append(history,
                         [module_max_levels |-> arg[t],
                          result |-> IF logger_state = "UNINITIALIZED"
                                     THEN "Ok"
                                     ELSE "SetLoggerError"])
    /\ pc' = [pc EXCEPT ![t] = "idle"]
    /\ arg' = [arg EXCEPT ![t] = << >>]
    /\ UNCHANGED <<max_level, app_logger, stdout, last_op, logger, call>>

Next ==
    \/ \E t \in Threads, r \in InitRuleSets : InitCall(t, r)
    \/ \E t \in Threads : SetMaxLevel(t)
    \/ \E t \in Threads : GetOrInit(t)
    \/ \E t \in Threads : SetLogger(t)

Spec == Init /\ [][Next]_vars

\* The same process when no two init calls overlap.
InitCallSeq(t, module_max_levels) ==
    /\ InFlight = {}
    /\ InitCall(t, module_max_levels)

NextSeq ==
    \/ \E t \in Threads, r \in InitRuleSets : InitCallSeq(t, r)
    \/ \E t \in Threads : SetMaxLevel(t)
    \/ \E t \in Threads : GetOrInit(t)
    \/ \E t \in Threads : SetLogger(t)

SpecSeq == Init /\ [][NextSeq]_vars

---------------------------------------------------------------------------
\* The resolver on a backend built directly (mod tests).

InitFn ==
    /\ InitProcess
    /\ logger \in { AppLogger(rules) : rules \in RuleSets }
    /\ call = [op |-> "none"]

\* logger.enabled(&Metadata::builder().target(..).level(..).build())
CallEnabled(metadata) ==
    /\ call.op = "none"
    /\ call' = [op |-> "enabled", metadata |-> metadata,
                result |-> enabled(logger, metadata)]
    /\ UNCHANGED <<max_level, app_logger, logger_state, pc, arg, history,
                   stdout, last_op, logger>>

\* crate::most_verbose_level(&rules)
CallMostVerboseLevel ==
    /\ call.op = "none"
    /\ call' = [op |-> "most_verbose_level",
                result |-> most_verbose_level(logger.module_max_levels)]
    /\ UNCHANGED <<max_level, app_logger, logger_state, pc, arg, history,
                   stdout, last_op, logger>>

NextFn ==
    \/ \E target \in Targets, level \in Level :
           CallEnabled(Metadata(target, level))
    \/ CallMostVerboseLevel

SpecFn == InitFn /\ [][NextFn]_vars

---------------------------------------------------------------------------
\* The backend's log and flush, on a backend built directly.

InitLog ==
    /\ InitProcess
    /\ logger \in { AppLogger(rules) : rules \in LogRuleSets }
    /\ call = [op |-> "none"]

\* logger.log(&record)
Log(record) ==
    /\ Len(stdout) < MaxOutput
    /\ stdout' = stdout \o log(logger, record)
    /\ last_op' = [op |-> "log", record |-> record]
    /\ UNCHANGED <<max_level, app_logger, logger_state, pc, arg, history,
                   logger, call>>

\* logger.flush()
Flush ==
    /\ stdout' = stdout \o flush(logger)
    /\ last_op' = [op |-> "flush"]
    /\ UNCHANGED <<max_level, app_logger, logger_state, pc, arg, history,
                   logger, call>>

NextLog ==
    \/ \E record \in Records : Log(record)
    \/ Flush

SpecLog == InitLog /\ [][NextLog]_vars

---------------------------------------------------------------------------
\* What the claims are stated with.

ModuleMaxLevels == logger.module_max_levels

\* prefix is a leading substring of target
IsLeadingSubstring(prefix, target) ==
    \E k \in 0..Len(target) : SubSeq(target, 1, k) = prefix

\* the positions of the Module rules whose prefix matches target
MatchingModules(target) ==
    { i \in 1..Len(ModuleMaxLevels) :
        /\ ModuleMaxLevels[i].kind = "Module"
        /\ IsLeadingSubstring(ModuleMaxLevels[i].name, target) }

Defaults == { i \in 1..Len(ModuleMaxLevels) : ModuleMaxLevels[i].kind = "Default" }

First(S) == CHOOSE i \in S : \A j \in S : i <= j

Returned(result) == { i \in 1..Len(history) : history[i].result = result }

\* the rule set held by the installed backend
InstalledRules == app_logger[1].module_max_levels

\* C1: when no two init calls overlap, only the first call returns Ok, every
\* later one returns the already-initialized error, and the backend keeps
\* the rule set passed to the first call.
C1_FirstInitWins ==
    /\ \A i \in 1..Len(history) : (history[i].result = "Ok") <=> (i = 1)
    /\ \A i \in 1..Len(history) : history[i].result \in {"Ok", "SetLoggerError"}
    /\ Len(history) >= 1 =>
           app_logger = Some(AppLogger(history[1].module_max_levels))

C1_Witness ==
    /\ Len(history) >= 2
    /\ history[2].result = "SetLoggerError"
    /\ history[2].module_max_levels # history[1].module_max_levels
    /\ InstalledRules = history[1].module_max_levels

\* C2: once init calls have completed, one of them successfully, the
\* process-wide maximum level equals most_verbose_level of the rule set the
\* installed backend holds.
C2_ThresholdMatchesBackend ==
    (InFlight = {} /\ Returned("Ok") # {}) =>
        max_level = most_verbose_level(InstalledRules)

\* C3: under every interleaving of concurrent init calls exactly one call
\* returns Ok, all the others return the already-initialized error, and the
\* installed backend holds the whole rule set of one caller.
C3_ExactlyOneWinner ==
    /\ Len(history) >= 1 => Cardinality(Returned("Ok")) = 1
    /\ Returned("Ok") \cup Returned("SetLoggerError") = 1..Len(history)
    /\ logger_state = "INITIALIZED" => app_logger # None
    /\ app_logger # None =>
           InstalledRules \in
               { history[i].module_max_levels : i \in 1..Len(history) }
                   \cup { arg[t] : t \in InFlight }

\* two calls raced: the one that returned Ok is not the one whose rule set
\* was installed
C3_Witness ==
    /\ Len(history) >= 2
    /\ history[1].result = "Ok"
    /\ history[2].result = "SetLoggerError"
    /\ history[1].module_max_levels # InstalledRules
    /\ history[2].module_max_levels = InstalledRules

\* C4: the caller that receives Ok is the caller whose rule set the installed
\* backend holds; every caller whose rule set was not installed receives the
\* already-initialized error.
C4_OkCallerOwnsBackend ==
    \A i \in 1..Len(history) :
        history[i].result = "Ok" =>
            history[i].module_max_levels = InstalledRules

\* C5: when a Module rule's prefix matches the target, enabled returns
\* level <= max-level of the first such rule in list order, whatever the
\* later rules and the Default rules at any position are.
C5_FirstMatchingModuleWins ==
    (call.op = "enabled" /\ MatchingModules(call.metadata.target) # {}) =>
        call.result =
            (call.metadata.level
                 <= ModuleMaxLevels[First(MatchingModules(call.metadata.target))].level)

\* a Default rule before and a matching Module rule after the first match,
\* each of which would decide the other way
C5_Witness ==
    /\ call.op = "enabled"
    /\ Len(ModuleMaxLevels) = 3
    /\ ModuleMaxLevels[1].kind = "Default"
    /\ MatchingModules(call.metadata.target) = {2, 3}
    /\ ModuleMaxLevels[2].name # ModuleMaxLevels[3].name
    /\ (call.metadata.level <= ModuleMaxLevels[1].level) # call.result
    /\ (call.metadata.level <= ModuleMaxLevels[3].level) # call.result

\* C6: when no Module rule's prefix matches the target, enabled returns
\* level <= max-level of the first Default rule in list order, and false
\* when the rule set has no Default rule.
C6_FirstDefaultIsFallback ==
    (call.op = "enabled" /\ MatchingModules(call.metadata.target) = {}) =>
        call.result =
            IF Defaults = {}
            THEN FALSE
            ELSE call.metadata.level <= ModuleMaxLevels[First(Defaults)].level

\* two Default rules that decide differently, after a Module rule that does
\* not match
C6_Witness ==
    /\ call.op = "enabled"
    /\ Len(ModuleMaxLevels) = 3
    /\ MatchingModules(call.metadata.target) = {}
    /\ Defaults = {2, 3}
    /\ call.result
    /\ ~(call.metadata.level <= ModuleMaxLevels[3].level)

\* C7: most_verbose_level returns the maximum max-level among all rules,
\* Module and Default alike, and Off for the empty rule set.
C7_MostVerboseIsMaximum ==
    call.op = "most_verbose_level" =>
        LET levels == {Off} \cup
                { ModuleMaxLevels[i].level : i \in 1..Len(ModuleMaxLevels) }
        IN  /\ call.result \in levels
            /\ \A l \in levels : l <= call.result
            /\ ModuleMaxLevels = << >> => call.result = Off

\* the maximum is a Default rule's, above every Module rule's
C7_Witness ==
    /\ call.op = "most_verbose_level"
    /\ Defaults # {}
    /\ Cardinality(Defaults) < Len(ModuleMaxLevels)
    /\ \A i \in 1..Len(ModuleMaxLevels) :
           i \notin Defaults => ModuleMaxLevels[i].level < call.result

\* the severity code C8 states, as the character written
SeverityCode(level) ==
    CASE level \in {Trace, Debug} -> "7"
      [] level = Info -> "6"
      [] level = Warn -> "4"
      [] level = Error -> "3"

\* C8: log appends exactly the line "<code>target: message" when
\* enabled(record) holds, with code 7 for Trace and Debug, 6 for Info, 4 for
\* Warn and 3 for Error, and leaves the output unchanged otherwise; flush
\* changes neither the output nor the rule set.
C8_LogWritesOneLine ==
    [][ /\ last_op'.op = "log" =>
               LET md == last_op'.record.metadata
               IN  stdout' =
                       IF enabled(logger, md)
                       THEN Append(stdout,
                                   <<"<", SeverityCode(md.level), ">">>
                                       \o md.target \o <<":", " ">>
                                       \o last_op'.record.args \o <<"\n">>)
                       ELSE stdout
        /\ last_op'.op = "flush" =>
               (stdout' = stdout /\ logger' = logger)
      ]_vars

\* a second line, of a Debug record, after a first one
C8_Witness ==
    /\ last_op.op = "log"
    /\ last_op.record.metadata.level = Debug
    /\ Len(stdout) = 2
    /\ stdout[2][2] = "7"

\* C9: a Module rule matches a target exactly when its prefix is a leading
\* substring of the target, with no separator boundary: "test1" matches
\* "test1", "test1::child::module" and "test12", and neither "test2" nor the
\* shorter "test".
C9_PrefixMatch ==
    (call.op = "enabled" /\ Len(ModuleMaxLevels) = 1
         /\ ModuleMaxLevels[1].kind = "Module") =>
        /\ call.result =
               (/\ IsLeadingSubstring(ModuleMaxLevels[1].name,
                                      call.metadata.target)
                /\ call.metadata.level <= ModuleMaxLevels[1].level)
        /\ ModuleMaxLevels[1] = Module(test1, Trace) =>
               call.result =
                   (call.metadata.target
                        \in {test1, test1_child_module, test12})

C9_Witness ==
    /\ call.op = "enabled"
    /\ ModuleMaxLevels = <<Module(test1, Error)>>
    /\ call.metadata.target = test12
    /\ call.result

\* C10: a record the resolver allows is never above the global threshold
\* computed from the same rule set.
C10_ThresholdAdmitsEnabled ==
    (call.op = "enabled" /\ call.result) =>
        to_level_filter(call.metadata.level)
            <= most_verbose_level(ModuleMaxLevels)

\* the record sits exactly at the threshold, which a Default rule sets
C10_Witness ==
    /\ call.op = "enabled"
    /\ call.result
    /\ MatchingModules(call.metadata.target) = {}
    /\ Len(ModuleMaxLevels) >= 2
    /\ call.metadata.level = most_verbose_level(ModuleMaxLevels)

===========================================================================
